---- MODULE Spec2Model ----
(***************************************************************************)
(* Fee-credit ledger of percolator.rs.                                     *)
(*                                                                         *)
(* Four call sites (settle_maintenance_fee,                                *)
(* settle_maintenance_fee_best_effort_for_crank, pay_fee_debt_from_capital *)
(* and deposit) each execute                                               *)
(*     fee_credits = fee_credits.saturating_add(u128_to_i128_clamped(pay)) *)
(* on an account's signed balance with an unsigned payment.                *)
(*                                                                         *)
(* The integer types are modelled with their two's-complement structure at *)
(* a reduced width: iW-bit signed balance, uW = iW-bit unsigned payment.   *)
(***************************************************************************)
EXTENDS Integers, Sequences, FiniteSets, TLC

\* ------------------------------------------------------------------------
\* Integer types
\* ------------------------------------------------------------------------

\* Bit width of both integer types (128 in the program).
Width == 3

Modulus == 2 ^ Width

\* i128::MAX, i128::MIN, u128::MAX at the model's width
signed_max == 2 ^ (Width - 1) - 1

signed_min == 0 - 2 ^ (Width - 1)

unsigned_max == 2 ^ Width - 1

\* FeeCredits values (i128) and Payment values (u128)
FeeCredits == signed_min .. signed_max

Payment == 0 .. unsigned_max

Min(x, y) == IF x <= y THEN x ELSE y

\* ------------------------------------------------------------------------
\* Arithmetic primitives
\* ------------------------------------------------------------------------

\* i128::wrapping_add: two's-complement sum modulo 2^Width
wrapping_add(a, b) == ((a + b - signed_min) % Modulus) + signed_min

\* i128::saturating_add: the sum, saturated at the numeric bounds
saturating_add(a, b) ==
    LET s == a + b
    IN  IF s > signed_max THEN signed_max
        ELSE IF s < signed_min THEN signed_min
        ELSE s

\* `v as i128`: reinterpretation of the unsigned bit pattern as signed
u128_as_i128(v) == IF v > signed_max THEN v - Modulus ELSE v

\* u128_to_i128_clamped: v when it fits the signed type, else the signed max
u128_to_i128_clamped(v) == IF v > signed_max THEN signed_max ELSE v

\* ------------------------------------------------------------------------
\* The four call sites: new fee_credits from the current one and a payment
\* ------------------------------------------------------------------------

settle_maintenance_fee_cast(fee_credits_, pay) ==
    saturating_add(fee_credits_, u128_as_i128(pay))

settle_maintenance_fee_wrapping(fee_credits_, pay) ==
    wrapping_add(fee_credits_, u128_to_i128_clamped(pay))

settle_maintenance_fee(fee_credits_, pay) ==
    saturating_add(fee_credits_, u128_to_i128_clamped(pay))

settle_maintenance_fee_best_effort_for_crank_wrapping(fee_credits_, pay) ==
    wrapping_add(fee_credits_, u128_to_i128_clamped(pay))

settle_maintenance_fee_best_effort_for_crank(fee_credits_, pay) ==
    saturating_add(fee_credits_, u128_to_i128_clamped(pay))

pay_fee_debt_from_capital_cast(fee_credits_, pay) ==
    saturating_add(fee_credits_, u128_as_i128(pay))

pay_fee_debt_from_capital_wrapping(fee_credits_, pay) ==
    wrapping_add(fee_credits_, u128_to_i128_clamped(pay))

pay_fee_debt_from_capital(fee_credits_, pay) ==
    saturating_add(fee_credits_, u128_to_i128_clamped(pay))

deposit_cast(fee_credits_, pay) ==
    saturating_add(fee_credits_, u128_as_i128(pay))

deposit_wrapping(fee_credits_, pay) ==
    wrapping_add(fee_credits_, u128_to_i128_clamped(pay))

deposit(fee_credits_, pay) ==
    saturating_add(fee_credits_, u128_to_i128_clamped(pay))

Paths == {"settle_maintenance_fee", "settle_maintenance_fee_best_effort_for_crank",
          "pay_fee_debt_from_capital", "deposit"}

\* The value the call site named path stores for (fee_credits_, pay)
Step(path, fee_credits_, pay) ==
    CASE path = "settle_maintenance_fee" ->
            settle_maintenance_fee(fee_credits_, pay)
      [] path = "settle_maintenance_fee_best_effort_for_crank" ->
            settle_maintenance_fee_best_effort_for_crank(fee_credits_, pay)
      [] path = "pay_fee_debt_from_capital" ->
            pay_fee_debt_from_capital(fee_credits_, pay)
      [] path = "deposit" ->
            deposit(fee_credits_, pay)

\* ------------------------------------------------------------------------
\* State
\* ------------------------------------------------------------------------

Accounts == {"A", "B", "C"}

\* The account the single-account specification operates on
Acct == "A"

\* Order in which a crank pass visits the accounts
CrankOrder == <<"A", "B", "C">>

\* Balances the accounts of a batch start from, payments a batch applies
StartBalances == {signed_min, 0, signed_max - 1}

BatchPayments == {0, 1, signed_max, unsigned_max}

NoOp == [path |-> "none", pay |-> 0]

Failed == [path |-> "failed", pay |-> 0]

VARIABLES
    fee_credits,   \* account -> the account's fee_credits field
    log,           \* the last (at most two) ledger steps on Acct, oldest first
    start,         \* account -> fee_credits before the batch
    applied,       \* account -> the settlement applied to it in the batch
    present,       \* accounts whose record exists
    pc             \* position of the crank pass in CrankOrder (0: no pass)

vars == <<fee_credits, log, start, applied, present, pc>>

\* `fee_credits = v` on account a: the field belongs to that account's record
store_shared(fc, a, v) == [x \in DOMAIN fc |-> v]

store(fc, a, v) == [fc EXCEPT ![a] = v]

\* The ledger statement of each call site, on account a
SettleMaintenanceFee(a, pay) ==
    fee_credits' = store(fee_credits, a, settle_maintenance_fee(fee_credits[a], pay))

SettleMaintenanceFeeBestEffortForCrank(a, pay) ==
    fee_credits' = store(fee_credits, a,
                         settle_maintenance_fee_best_effort_for_crank(fee_credits[a], pay))

PayFeeDebtFromCapital(a, pay) ==
    fee_credits' = store(fee_credits, a, pay_fee_debt_from_capital(fee_credits[a], pay))

Deposit(a, pay) ==
    fee_credits' = store(fee_credits, a, deposit(fee_credits[a], pay))

\* ------------------------------------------------------------------------
\* Spec: any sequence of the four operations on one account
\* ------------------------------------------------------------------------

Record(path, a, pay) ==
    LET e == [path |-> path, pay |-> pay,
              before |-> fee_credits[a], after |-> fee_credits'[a]]
    IN  log' = IF Len(log) < 2 THEN Append(log, e) ELSE <<log[2], e>>

Init ==
    /\ \E b \in FeeCredits : fee_credits = [a \in Accounts |-> IF a = Acct THEN b ELSE 0]
    /\ log = <<>>
    /\ start = fee_credits
    /\ applied = [a \in Accounts |-> NoOp]
    /\ present = Accounts
    /\ pc = 0

LedgerSettleMaintenanceFee ==
    \E pay \in Payment :
        /\ SettleMaintenanceFee(Acct, pay)
        /\ Record("settle_maintenance_fee", Acct, pay)
        /\ UNCHANGED <<start, applied, present, pc>>

LedgerSettleBestEffortForCrank ==
    \E pay \in Payment :
        /\ SettleMaintenanceFeeBestEffortForCrank(Acct, pay)
        /\ Record("settle_maintenance_fee_best_effort_for_crank", Acct, pay)
        /\ UNCHANGED <<start, applied, present, pc>>

LedgerPayFeeDebtFromCapital ==
    \E pay \in Payment :
        /\ PayFeeDebtFromCapital(Acct, pay)
        /\ Record("pay_fee_debt_from_capital", Acct, pay)
        /\ UNCHANGED <<start, applied, present, pc>>

LedgerDeposit ==
    \E pay \in Payment :
        /\ Deposit(Acct, pay)
        /\ Record("deposit", Acct, pay)
        /\ UNCHANGED <<start, applied, present, pc>>

Next ==
    \/ LedgerSettleMaintenanceFee
    \/ LedgerSettleBestEffortForCrank
    \/ LedgerPayFeeDebtFromCapital
    \/ LedgerDeposit

Spec == Init /\ [][Next]_vars

\* ------------------------------------------------------------------------
\* SpecInterleave: one settlement per account, in any order
\* ------------------------------------------------------------------------

InitBatch ==
    /\ fee_credits \in [Accounts -> StartBalances]
    /\ log = <<>>
    /\ start = fee_credits
    /\ applied = [a \in Accounts |-> NoOp]

InitInterleave ==
    /\ InitBatch
    /\ present = Accounts
    /\ pc = 0

Mark(path, a, pay) ==
    applied' = [applied EXCEPT ![a] = [path |-> path, pay |-> pay]]

InterleaveSettleMaintenanceFee ==
    \E a \in Accounts, pay \in BatchPayments :
        /\ applied[a] = NoOp
        /\ SettleMaintenanceFee(a, pay)
        /\ Mark("settle_maintenance_fee", a, pay)
        /\ UNCHANGED <<log, start, present, pc>>

InterleaveSettleBestEffortForCrank ==
    \E a \in Accounts, pay \in BatchPayments :
        /\ applied[a] = NoOp
        /\ SettleMaintenanceFeeBestEffortForCrank(a, pay)
        /\ Mark("settle_maintenance_fee_best_effort_for_crank", a, pay)
        /\ UNCHANGED <<log, start, present, pc>>

InterleavePayFeeDebtFromCapital ==
    \E a \in Accounts, pay \in BatchPayments :
        /\ applied[a] = NoOp
        /\ PayFeeDebtFromCapital(a, pay)
        /\ Mark("pay_fee_debt_from_capital", a, pay)
        /\ UNCHANGED <<log, start, present, pc>>

InterleaveDeposit ==
    \E a \in Accounts, pay \in BatchPayments :
        /\ applied[a] = NoOp
        /\ Deposit(a, pay)
        /\ Mark("deposit", a, pay)
        /\ UNCHANGED <<log, start, present, pc>>

NextInterleave ==
    \/ InterleaveSettleMaintenanceFee
    \/ InterleaveSettleBestEffortForCrank
    \/ InterleavePayFeeDebtFromCapital
    \/ InterleaveDeposit

SpecInterleave == InitInterleave /\ [][NextInterleave]_vars

\* ------------------------------------------------------------------------
\* SpecCrank: one crank pass over CrankOrder with best-effort settlement
\* ------------------------------------------------------------------------

InitCrank ==
    /\ InitBatch
    /\ present \in SUBSET Accounts
    /\ pc = 1

\* The account's record exists: the best-effort settlement reaches its
\* ledger statement, and the pass moves on.
CrankSettle ==
    /\ pc \in 1 .. Len(CrankOrder)
    /\ CrankOrder[pc] \in present
    /\ \E pay \in BatchPayments :
        /\ SettleMaintenanceFeeBestEffortForCrank(CrankOrder[pc], pay)
        /\ Mark("settle_maintenance_fee_best_effort_for_crank", CrankOrder[pc], pay)
    /\ pc' = pc + 1
    /\ UNCHANGED <<log, start, present>>

\* The account's record is missing: the settlement fails before its ledger
\* statement; the failure is noted and the pass moves on.
CrankSkip ==
    /\ pc \in 1 .. Len(CrankOrder)
    /\ CrankOrder[pc] \notin present
    /\ applied' = [applied EXCEPT ![CrankOrder[pc]] = Failed]
    /\ pc' = pc + 1
    /\ UNCHANGED <<fee_credits, log, start, present>>

NextCrank ==
    \/ CrankSettle
    \/ CrankSkip

SpecCrank == InitCrank /\ [][NextCrank]_vars

\* ------------------------------------------------------------------------
\* Properties
\* ------------------------------------------------------------------------

Entries == {log[i] : i \in 1 .. Len(log)}

HasTwo == Len(log) = 2

\* The saturating addition of step e hit a bound of the signed type
Saturated(e) == (e.before + Min(e.pay, signed_max)) \notin FeeCredits

\* C1: every recorded update stores min(signed_max, b + min(pay, signed_max))
\* computed in unbounded integers, a value inside [signed_min, signed_max];
\* it never wraps negative when the true sum exceeds signed_max.
C1_SaturatingUpdate ==
    \A e \in Entries :
        /\ e.after = Min(signed_max, e.before + Min(e.pay, signed_max))
        /\ e.after \in FeeCredits

C1_Witness ==
    \E e \in Entries :
        /\ e.path = "settle_maintenance_fee"
        /\ e.before = signed_max - 1
        /\ e.pay = 2
        /\ e.after = signed_max

\* C2: the signed delta a payment contributes is the payment itself when
\* pay <= signed_max and exactly signed_max when pay > signed_max; it is never
\* negative, and a balance of 0 paid unsigned_max becomes signed_max.  (The
\* delta is the difference after - before; with before <= 0 the addition
\* cannot saturate, so the difference is the converted payment itself.)
C2_ClampedConversion ==
    \A e \in Entries :
        /\ e.after - e.before >= 0
        /\ e.before <= 0 =>
              e.after - e.before = (IF e.pay <= signed_max THEN e.pay ELSE signed_max)
        /\ (e.before = 0 /\ e.pay = unsigned_max) => e.after = signed_max

C2_Witness ==
    \E e \in Entries :
        /\ e.path = "settle_maintenance_fee"
        /\ e.before = 0
        /\ e.pay = unsigned_max
        /\ e.after = signed_max

\* C3: the result is always inside [signed_min, signed_max], and whenever the
\* addition does not saturate the balance does not decrease.
C3_MonotoneInRange ==
    \A e \in Entries :
        /\ e.after \in FeeCredits
        /\ ~Saturated(e) => e.after >= e.before

C3_Witness ==
    \E e \in Entries :
        /\ e.path = "pay_fee_debt_from_capital"
        /\ ~Saturated(e)
        /\ e.pay > signed_max
        /\ e.after > e.before

\* The two recorded steps, and the single step with the combined payment
TwoStepPlain ==
    /\ HasTwo
    /\ ~Saturated(log[1])
    /\ ~Saturated(log[2])

OneStep == Step(log[1].path, log[1].before, log[1].pay + log[2].pay)

\* C4 (as stated): whenever no saturating addition saturates, in the two
\* steps or in the single step, applying pay1 and then pay2 equals applying
\* pay1 + pay2 at once, for every pair whose sum is a payment.
C4_Original ==
    ( /\ TwoStepPlain
      /\ log[1].pay + log[2].pay <= unsigned_max
      /\ ~Saturated([before |-> log[1].before, pay |-> log[1].pay + log[2].pay]) )
    => log[2].after = OneStep

\* C4 (amended): whenever neither addition of the two steps saturates and the
\* clamped deltas add up to the clamped delta of the combined payment (in
\* particular whenever pay1 + pay2 <= signed_max), applying pay1 and then pay2
\* equals applying pay1 + pay2 at once.
C4_Associative ==
    ( /\ TwoStepPlain
      /\ Min(log[1].pay, signed_max) + Min(log[2].pay, signed_max)
            = Min(log[1].pay + log[2].pay, signed_max) )
    => ( /\ log[1].pay + log[2].pay \in Payment
         /\ log[2].after = OneStep )

C4_Witness ==
    /\ TwoStepPlain
    /\ log[1].path = "settle_maintenance_fee"
    /\ log[2].path = "deposit"
    /\ log[1].pay >= 1
    /\ log[2].pay >= 1
    /\ log[1].pay + log[2].pay = signed_max
    /\ log[2].after = OneStep
    /\ log[2].after = log[1].before + signed_max

\* C5: if a saturating addition saturates while pay1 and then pay2 are
\* applied, the two-step result is at least min(signed_max, b + pay1 + pay2),
\* the sum taken in unbounded integers over the unclamped payments.
C5_SaturatedBound ==
    ( /\ HasTwo
      /\ Saturated(log[1]) \/ Saturated(log[2]) )
    => log[2].after >= Min(signed_max, log[1].before + log[1].pay + log[2].pay)

C5_Witness ==
    /\ HasTwo
    /\ log[1].path = "settle_maintenance_fee_best_effort_for_crank"
    /\ log[2].path = "pay_fee_debt_from_capital"
    /\ log[1].before < 0
    /\ log[1].pay > signed_max
    /\ ~Saturated(log[1])
    /\ Saturated(log[2])
    /\ log[2].after = signed_max

\* C8: whichever call site ran, the value it stored is the value each of the
\* four call sites computes for the same balance and payment, and fee_credits
\* holds exactly the value stored by the latest step.
C8_SameLedgerStep ==
    /\ \A e \in Entries : \A q \in Paths : Step(q, e.before, e.pay) = e.after
    /\ fee_credits[Acct] = (IF log = <<>> THEN start[Acct] ELSE log[Len(log)].after)
    /\ HasTwo => log[2].before = log[1].after

C8_Witness ==
    /\ HasTwo
    /\ log[1].path = "deposit"
    /\ log[2].path = "settle_maintenance_fee_best_effort_for_crank"
    /\ log[1].pay > signed_max
    /\ Saturated(log[2])
    /\ log[2].after > log[1].before

\* C9: no operation ever lowers fee_credits, saturated or clamped or not, and
\* a balance of signed_max stays signed_max.
C9_NeverDecreases ==
    [][ /\ fee_credits'[Acct] >= fee_credits[Acct]
        /\ fee_credits[Acct] = signed_max => fee_credits'[Acct] = signed_max ]_vars

C9_Witness ==
    /\ HasTwo
    /\ Saturated(log[1])
    /\ log[1].after = signed_max
    /\ log[2].pay = unsigned_max
    /\ log[2].after = signed_max

\* C10: two serialized operations on the same account give the same final
\* fee_credits in either order.
C10_OrderIndependent ==
    HasTwo =>
        log[2].after = Step(log[1].path,
                            Step(log[2].path, log[1].before, log[2].pay),
                            log[1].pay)

C10_Witness ==
    /\ HasTwo
    /\ log[1].path = "settle_maintenance_fee_best_effort_for_crank"
    /\ log[2].path = "deposit"
    /\ log[1].pay = 1
    /\ log[2].pay = unsigned_max
    /\ Saturated(log[2])
    /\ ~Saturated(log[1])

\* C6: in a crank pass, every account already visited whose record exists
\* holds exactly the value its own settlement computed from its own prior
\* balance, every visited account whose record is missing is marked failed and
\* keeps its balance, accounts not yet visited are untouched, and the pass can
\* always take its next step until all accounts are visited.
C6_CrankIsolation ==
    /\ \A i \in 1 .. Len(CrankOrder) :
         LET a == CrankOrder[i]
         IN  IF i >= pc
               THEN applied[a] = NoOp /\ fee_credits[a] = start[a]
             ELSE IF a \in present
               THEN /\ applied[a].path = "settle_maintenance_fee_best_effort_for_crank"
                    /\ fee_credits[a] =
                         settle_maintenance_fee_best_effort_for_crank(start[a], applied[a].pay)
             ELSE applied[a] = Failed /\ fee_credits[a] = start[a]
    /\ pc <= Len(CrankOrder) => ENABLED NextCrank

C6_Witness ==
    /\ pc = Len(CrankOrder) + 1
    /\ present = {"A", "C"}
    /\ applied["A"].pay = 1
    /\ fee_credits["A"] = start["A"] + 1
    /\ applied["B"] = Failed
    /\ applied["C"].pay = unsigned_max
    /\ fee_credits["C"] > start["C"]

\* C7: whatever the order in which operations on distinct accounts run, each
\* account holds the value of its own operation applied to its own starting
\* balance, and an account no operation targeted keeps its starting balance.
C7_AccountsIndependent ==
    \A a \in Accounts :
        fee_credits[a] = (IF applied[a] = NoOp THEN start[a]
                          ELSE Step(applied[a].path, start[a], applied[a].pay))

C7_Witness ==
    /\ applied["A"].path = "deposit"
    /\ applied["B"].path = "settle_maintenance_fee"
    /\ applied["C"].path = "pay_fee_debt_from_capital"
    /\ \A a \in Accounts : fee_credits[a] > start[a]
    /\ fee_credits["A"] # fee_credits["B"]

====
